---- MODULE Spec2Model ----
(***************************************************************************)
(* Model of the background job dispatcher of authentication_background     *)
(* (src/authentication_background/src/lib.rs): the registration phase      *)
(* (InitialConfig::register_handler), run (channel + worker thread),       *)
(* producers sending Message::new items on clones of the hook, the worker  *)
(* loop with its retry-by-resubmission, and cleanup (exit item + join).    *)
(***************************************************************************)
EXTENDS Integers, Sequences, FiniteSets, TLC

\* ---------------------------------------------------------------- bounds
MaxSends == 2          \* producer send attempts explored
MaxRegs == 2           \* register_handler calls explored

\* ------------------------------------------------------ program constants
InitialRetries == 10   \* Message::new: retries: 10
ExitRetries == 0       \* cleanup: retries: 0

\* ------------------------------------------------------------ input sets
HandlerNames == {"welcome_email"}
RegNames == HandlerNames \cup {"exit"}
MsgNames == HandlerNames \cup {"report", "exit"}
Payloads == {"None", "Some"}
Producers == {"p1", "p2"}   \* holders of a clone of the hook
\* the payload each producer puts in the items it submits
PayloadOf(p) == IF p = "p1" THEN "None" ELSE "Some"
\* behaviours of the registered closures:
\*   ok     returns Ok(()) on every call
\*   fail   returns Err(ProcessingError) on every call
\*   fail3  returns Err on its calls 1, 2, 3 and Ok from call 4 on
\*   panic  panics when called
Kinds == {"ok", "fail", "fail3", "panic"}

Ids == 1..MaxSends
NoMsg == [name |-> "", message |-> "None", retries |-> 0, id |-> 0]

VARIABLES
  handlers,   \* InitialConfig.handlers: name -> handler
  lastReg,    \* registration phase: the last register_handler call and its result
  firstReg,   \* per name: the handler of the first registration attempted
  nregs,      \* registration phase: number of register_handler calls made
  mainpc,     \* owner: "config", "running", "joining", "done", "dropped"
  result,     \* result of cleanup: "none", "Ok", "SendError", "JoinError"
  chan,       \* the mpsc channel: messages sent and not yet received
  rxAlive,    \* the Receiver has not been dropped
  wpc,        \* worker: "NotSpawned", "Recv", "Dispatch", "Failed", "Stopped", "Panicked"
  msg,        \* the message the worker holds (loop variable msg)
  calls,      \* per handler name: how many times that closure was called
  invoked,    \* the closure the worker called last
  nsent,      \* number of producer send attempts made
  lastSend,   \* result of the last producer send: "none", "Ok", "SendError"
  track       \* per submitted item: history of what happened to it

vars == <<handlers, lastReg, firstReg, nregs, mainpc, result, chan, rxAlive,
          wpc, msg, calls, invoked, nsent, lastSend, track>>

\* ------------------------------------------------------------- messages
\* Message::new(name, message)
MessageNew(name, message, id) ==
  [name |-> name, message |-> message, retries |-> InitialRetries, id |-> id]

\* the exit item built by cleanup
ExitMessage ==
  [name |-> "exit", message |-> "None", retries |-> ExitRetries, id |-> 0]

\* mpsc::Sender::send: appends while the Receiver lives, fails afterwards
SendOk_always(alive) == TRUE

SendOk(alive) == alive

ChanSend_twice(ch, alive, m) == IF SendOk(alive) THEN ch \o <<m, m>> ELSE ch

ChanSend_front(ch, alive, m) == IF SendOk(alive) THEN <<m>> \o ch ELSE ch

ChanSend(ch, alive, m) == IF SendOk(alive) THEN Append(ch, m) ELSE ch

\* ids of the producer items held in a sequence of messages
IdsIn(ch) == {ch[i].id : i \in 1..Len(ch)} \ {0}

\* ------------------------------------------------------------------ Init
NoTrack == [calls |-> 0, requeued |-> 0, first |-> "none", fate |-> "unsent",
            name |-> "", message |-> "None", at |-> "none",
            producer |-> "none", seen |-> FALSE]

NoReg == [name |-> "", handler |-> "none", result |-> <<"none">>]

Init ==
  /\ handlers = << >>
  /\ lastReg = NoReg
  /\ firstReg = << >>
  /\ nregs = 0
  /\ mainpc = "config"
  /\ result = "none"
  /\ chan = << >>
  /\ rxAlive = FALSE
  /\ wpc = "NotSpawned"
  /\ msg = NoMsg
  /\ calls = [n \in HandlerNames |-> 0]
  /\ invoked = "none"
  /\ nsent = 0
  /\ lastSend = "none"
  /\ track = [i \in Ids |-> NoTrack]

\* --------------------------------------------------- registration phase
\* the result of register_handler(name, h) on registry hs
RegisterResult_noExitCheck(hs, name) ==
  IF name \in DOMAIN hs THEN <<"DuplicateHandler", name>> ELSE <<"Ok">>

RegisterResult_noDupCheck(hs, name) ==
  IF name = "exit" THEN <<"ExitHandler">> ELSE <<"Ok">>

RegisterResult(hs, name) ==
  IF name = "exit" THEN <<"ExitHandler">>
  ELSE IF name \in DOMAIN hs THEN <<"DuplicateHandler", name>>
  ELSE <<"Ok">>

\* the registry after register_handler(name, h)
RegisterInsert(hs, name, h) ==
  IF RegisterResult(hs, name) = <<"Ok">>
  THEN [n \in (DOMAIN hs) \cup {name} |-> IF n = name THEN h ELSE hs[n]]
  ELSE hs

Register(name, h) ==
  /\ mainpc = "config"
  /\ nregs < MaxRegs
  /\ nregs' = nregs + 1
  /\ lastReg' = [name |-> name, handler |-> h,
                 result |-> RegisterResult(handlers, name)]
  /\ handlers' = RegisterInsert(handlers, name, h)
  /\ firstReg' = IF name \in DOMAIN firstReg \/ name = "exit"
                 THEN firstReg
                 ELSE [n \in (DOMAIN firstReg) \cup {name} |->
                         IF n = name THEN h ELSE firstReg[n]]
  /\ UNCHANGED <<mainpc, result, chan, rxAlive, wpc, msg, calls, invoked,
                 nsent, lastSend, track>>

\* ------------------------------------------------------------------- run
\* run(config): the InitialConfig moves into the worker thread, which ends
\* the registration phase; the channel is created and the thread spawned
Run ==
  /\ mainpc = "config"
  /\ mainpc' = "running"
  /\ lastReg' = NoReg
  /\ nregs' = 0
  /\ chan' = << >>
  /\ rxAlive' = TRUE
  /\ wpc' = "Recv"
  /\ UNCHANGED <<handlers, firstReg, result, msg, calls, invoked, nsent,
                 lastSend, track>>

\* ------------------------------------------------------------- producers
\* the Config and every clone of its hook are dropped without cleanup: the
\* JoinHandle detaches the thread and no external Sender is left
Abandon ==
  /\ mainpc = "running"
  /\ mainpc' = "dropped"
  /\ UNCHANGED <<handlers, lastReg, firstReg, nregs, result, chan, rxAlive, wpc,
                 msg, calls, invoked, nsent, lastSend, track>>

\* some Sender outside the worker thread is still held
ExternalHooks(pc) == pc # "dropped"

Submit_bounded(p, name) ==
  /\ mainpc # "config"
  /\ ExternalHooks(mainpc)
  /\ nsent < MaxSends
  /\ nsent' = nsent + 1
  /\ LET id == nsent + 1
         message == PayloadOf(p)
         m == MessageNew(name, message, id)
         ok == SendOk(rxAlive) /\ Len(chan) < 1
     IN /\ chan' = IF ok THEN Append(chan, m) ELSE chan
        /\ lastSend' = IF ok THEN "Ok" ELSE "SendError"
        /\ track' = [track EXCEPT ![id] =
                       [@ EXCEPT !.fate = IF ok THEN "live" ELSE "rejected",
                                 !.name = name, !.message = message,
                                 !.at = mainpc, !.producer = p]]
  /\ UNCHANGED <<handlers, lastReg, firstReg, nregs, mainpc, result, rxAlive, wpc,
                 msg, calls, invoked>>

\* hook().send(Message::new(name, message)) by any holder of a clone
Submit(p, name) ==
  /\ mainpc # "config"
  /\ ExternalHooks(mainpc)
  /\ nsent < MaxSends
  /\ nsent' = nsent + 1
  /\ LET id == nsent + 1
         message == PayloadOf(p)
         m == MessageNew(name, message, id)
     IN /\ chan' = ChanSend(chan, rxAlive, m)
        /\ lastSend' = IF SendOk(rxAlive) THEN "Ok" ELSE "SendError"
        /\ track' = [track EXCEPT ![id] =
                       [@ EXCEPT !.fate = IF SendOk(rxAlive) THEN "live" ELSE "rejected",
                                 !.name = name, !.message = message,
                                 !.at = mainpc, !.producer = p]]
  /\ UNCHANGED <<handlers, lastReg, firstReg, nregs, mainpc, result, rxAlive, wpc,
                 msg, calls, invoked>>

\* ---------------------------------------------------------- worker loop
SetFate(tr, id, fate) ==
  IF id \in Ids THEN [tr EXCEPT ![id].fate = fate] ELSE tr

\* items discarded with the channel when the Receiver is dropped
Discard(tr, ch) ==
  [i \in Ids |-> IF i \in IdsIn(ch) THEN [tr[i] EXCEPT !.fate = "lost"] ELSE tr[i]]

\* one handler invocation recorded against the item it was made for
Invoked(tr, id, res) ==
  IF id \in Ids
  THEN [tr EXCEPT ![id].calls = @ + 1,
                  ![id].first = IF @ = "none" THEN res ELSE @]
  ELSE tr

\* what the closure of behaviour kind returns on its n-th call
HandlerResult(kind, n) ==
  CASE kind = "ok" -> "Ok"
    [] kind = "fail" -> "Err"
    [] kind = "fail3" -> IF n <= 3 THEN "Err" ELSE "Ok"
    [] kind = "panic" -> "Panic"

\* an item comes out of the channel into the worker's hands
Received(tr, id) ==
  IF id \in Ids THEN [tr EXCEPT ![id].fate = "handling", ![id].seen = TRUE] ELSE tr

\* thread_hook, the Sender the closure owns, lives as long as the loop
ThreadHookHeld == TRUE

\* the iterator ends when the channel is empty and no Sender is left
Disconnected_noThreadHook(pc) == ~ExternalHooks(pc)

Disconnected(pc) == ~ExternalHooks(pc) /\ ~ThreadHookHeld

WorkerRecv_lifo ==
  /\ wpc = "Recv"
  /\ rxAlive
  /\ IF chan # << >>
     THEN /\ msg' = chan[Len(chan)]
          /\ chan' = SubSeq(chan, 1, Len(chan) - 1)
          /\ wpc' = "Dispatch"
          /\ track' = Received(track, chan[Len(chan)].id)
          /\ UNCHANGED rxAlive
     ELSE /\ Disconnected(mainpc)
          /\ wpc' = "Stopped"
          /\ rxAlive' = FALSE
          /\ UNCHANGED <<msg, chan, track>>
  /\ UNCHANGED <<handlers, lastReg, firstReg, nregs, mainpc, result, calls, invoked,
                 nsent, lastSend>>

\* for msg in receiver: the blocking receive
WorkerRecv ==
  /\ wpc = "Recv"
  /\ rxAlive
  /\ IF chan # << >>
     THEN /\ msg' = Head(chan)
          /\ chan' = Tail(chan)
          /\ wpc' = "Dispatch"
          /\ track' = Received(track, Head(chan).id)
          /\ UNCHANGED rxAlive
     ELSE /\ Disconnected(mainpc)
          /\ wpc' = "Stopped"
          /\ rxAlive' = FALSE
          /\ UNCHANGED <<msg, chan, track>>
  /\ UNCHANGED <<handlers, lastReg, firstReg, nregs, mainpc, result, calls, invoked,
                 nsent, lastSend>>

\* if msg.name() == "exit" { break; }
IsExit_onlySentinel(m) == m.name = "exit" /\ m.retries = 0

IsExit_never(m) == m.name = "Exit"

IsExit(m) == m.name = "exit"

\* handlers.get(msg.name())
HasHandler_never(hs, m) == m.message \in DOMAIN hs

HasHandler(hs, m) == m.name \in DOMAIN hs

\* the thread ends (break or unwinding): the Receiver and what it holds go
WorkerEnds(state, fate) ==
  /\ wpc' = state
  /\ rxAlive' = FALSE
  /\ chan' = << >>
  /\ track' = SetFate(Discard(track, chan), msg.id, fate)

WorkerExit ==
  /\ wpc = "Dispatch"
  /\ IsExit(msg)
  /\ WorkerEnds("Stopped", "exit")
  /\ UNCHANGED <<handlers, lastReg, firstReg, nregs, mainpc, result, msg, calls, invoked,
                 nsent, lastSend>>

WorkerNoHandler_break ==
  /\ wpc = "Dispatch"
  /\ ~IsExit(msg)
  /\ ~HasHandler(handlers, msg)
  /\ WorkerEnds("Stopped", "nohandler")
  /\ UNCHANGED <<handlers, lastReg, firstReg, nregs, mainpc, result, msg, calls,
                 invoked, nsent, lastSend>>

WorkerNoHandler ==
  /\ wpc = "Dispatch"
  /\ ~IsExit(msg)
  /\ ~HasHandler(handlers, msg)
  /\ wpc' = "Recv"
  /\ track' = SetFate(track, msg.id, "nohandler")
  /\ UNCHANGED <<handlers, lastReg, firstReg, nregs, mainpc, result, chan, rxAlive,
                 msg, calls, invoked, nsent, lastSend>>

\* if let Err(err) = handler(msg.message())
IsErr_inverted(res) == res = "Ok"

IsErr(res) == res = "Err"

\* handler(msg.message())
WorkerInvoke ==
  /\ wpc = "Dispatch"
  /\ ~IsExit(msg)
  /\ HasHandler(handlers, msg)
  /\ LET n == calls[msg.name] + 1
         res == HandlerResult(handlers[msg.name], n)
     IN /\ calls' = [calls EXCEPT ![msg.name] = n]
        /\ invoked' = handlers[msg.name]
        /\ IF res = "Panic"
           THEN /\ wpc' = "Panicked"
                /\ rxAlive' = FALSE
                /\ chan' = << >>
                /\ track' = SetFate(Invoked(Discard(track, chan), msg.id, res),
                                    msg.id, "panicked")
           ELSE IF IsErr(res)
           THEN /\ wpc' = "Failed"
                /\ track' = Invoked(track, msg.id, res)
                /\ UNCHANGED <<chan, rxAlive>>
           ELSE /\ wpc' = "Recv"
                /\ track' = SetFate(Invoked(track, msg.id, res), msg.id, "succeeded")
                /\ UNCHANGED <<chan, rxAlive>>
  /\ UNCHANGED <<handlers, lastReg, firstReg, nregs, mainpc, result, msg, nsent,
                 lastSend>>

\* if msg.retries > 0
ShouldRetry_always(m) == m.retries >= 0

ShouldRetry_offByOne(m) == m.retries > 1

ShouldRetry(m) == m.retries > 0

\* Message { name: msg.name, message: msg.message, retries: msg.retries - 1 }
RetryCopy_noDecrement(m) == m

RetryCopy_dropPayload(m) == [m EXCEPT !.retries = @ - 1, !.message = "None"]

RetryCopy(m) == [m EXCEPT !.retries = @ - 1]

\* the Err branch: requeue through thread_hook, or give up
WorkerFailed ==
  /\ wpc = "Failed"
  /\ IF ShouldRetry(msg)
     THEN IF SendOk(rxAlive)
          THEN /\ chan' = ChanSend(chan, rxAlive, RetryCopy(msg))
               /\ wpc' = "Recv"
               /\ track' = SetFate([track EXCEPT ![msg.id].requeued = @ + 1],
                                   msg.id, "live")
               /\ UNCHANGED rxAlive
          ELSE \* .expect("Failed to requeue task") panics
               WorkerEnds("Panicked", "panicked")
     ELSE /\ wpc' = "Recv"
          /\ track' = SetFate(track, msg.id, "exhausted")
          /\ UNCHANGED <<chan, rxAlive>>
  /\ UNCHANGED <<handlers, lastReg, firstReg, nregs, mainpc, result, msg, calls, invoked,
                 nsent, lastSend>>

Worker == WorkerRecv \/ WorkerExit \/ WorkerNoHandler \/ WorkerInvoke \/ WorkerFailed

\* --------------------------------------------------------------- cleanup
\* hook.send(Message { name: "exit", message: None, retries: 0 })?
CleanupSend_ignoreErr ==
  /\ mainpc = "running"
  /\ chan' = ChanSend(chan, rxAlive, ExitMessage)
  /\ mainpc' = "joining"
  /\ UNCHANGED <<handlers, lastReg, firstReg, nregs, result, rxAlive, wpc, msg,
                 calls, invoked, nsent, lastSend, track>>

CleanupSend ==
  /\ mainpc = "running"
  /\ chan' = ChanSend(chan, rxAlive, ExitMessage)
  /\ IF SendOk(rxAlive)
     THEN /\ mainpc' = "joining"
          /\ UNCHANGED result
     ELSE /\ mainpc' = "done"
          /\ result' = "SendError"
  /\ UNCHANGED <<handlers, lastReg, firstReg, nregs, rxAlive, wpc, msg, calls, invoked, nsent,
                 lastSend, track>>

\* JoinHandle::join returns once the thread has ended
Joinable_always(w) == TRUE

Joinable(w) == w \in {"Stopped", "Panicked"}

\* handle.join()?  then Ok(())
JoinResult_swallow(w) == "Ok"

JoinResult(w) == IF w = "Panicked" THEN "JoinError" ELSE "Ok"

CleanupJoin ==
  /\ mainpc = "joining"
  /\ Joinable(wpc)
  /\ mainpc' = "done"
  /\ result' = JoinResult(wpc)
  /\ UNCHANGED <<handlers, lastReg, firstReg, nregs, chan, rxAlive, wpc, msg, calls, invoked,
                 nsent, lastSend, track>>

\* ------------------------------------------------------------------ Next
Next ==
  \/ \E name \in RegNames, h \in Kinds : Register(name, h)
  \/ Run
  \/ \E p \in Producers, name \in MsgNames : Submit(p, name)
  \/ Abandon
  \/ WorkerRecv
  \/ WorkerExit
  \/ WorkerNoHandler
  \/ WorkerInvoke
  \/ WorkerFailed
  \/ CleanupSend
  \/ CleanupJoin

Spec == Init /\ [][Next]_vars

\* the worker thread and the joining owner are scheduled
FairSpec == Spec /\ WF_vars(Worker) /\ WF_vars(CleanupJoin)

TypeOK ==
  /\ mainpc \in {"config", "running", "joining", "done", "dropped"}
  /\ result \in {"none", "Ok", "SendError", "JoinError"}
  /\ wpc \in {"NotSpawned", "Recv", "Dispatch", "Failed", "Stopped", "Panicked"}
  /\ rxAlive \in BOOLEAN
  /\ nsent \in 0..MaxSends
  /\ nregs \in 0..MaxRegs
  /\ \A i \in 1..Len(chan) : chan[i].retries \in 0..InitialRetries

\* ==================================================================
\* Properties
\* ==================================================================

\* a copy of item i is in the channel or in the worker's hands
Live(i) ==
  \/ i \in IdsIn(chan)
  \/ wpc \in {"Dispatch", "Failed"} /\ msg.id = i

Running == wpc \in {"Recv", "Dispatch", "Failed"}

\* C1 - Retry bound: an item made by Message::new whose handler fails on
\* every invocation is invoked exactly 11 times (1 attempt + 10 retries) and
\* is then dropped: no item is ever invoked more than 11 times, every queued
\* copy carries 10 minus the invocations made so far, and an exhausted item
\* has had exactly 11 invocations and 10 requeues and has no copy left.
C1_RetryBound ==
  \A i \in Ids :
    /\ track[i].calls <= 11
    /\ \A k \in 1..Len(chan) : chan[k].id = i => chan[k].retries = 10 - track[i].calls
    /\ track[i].fate = "exhausted" =>
         /\ track[i].calls = 11
         /\ track[i].requeued = 10
         /\ ~Live(i)

C1_Witness ==
  \E i \in Ids :
    /\ track[i].fate = "exhausted"
    /\ track[i].name \in DOMAIN handlers
    /\ handlers[track[i].name] = "fail"

\* C2 - Concrete scenario: "welcome_email" registered with a handler failing
\* on calls 1..3 and succeeding on call 4; one "welcome_email" item is
\* submitted, then cleanup is called and has returned.
C2_Scenario ==
  /\ handlers = ("welcome_email" :> "fail3")
  /\ nsent = 1
  /\ track[1].name = "welcome_email"
  /\ track[1].at = "running"
  /\ mainpc = "done"

\* C2 as stated: after cleanup returns the call counter equals 4 in every
\* interleaving (the item has been retried to success).
C2_Original ==
  C2_Scenario => (calls["welcome_email"] = 4 /\ track[1].fate = "succeeded")

\* C2 (amended) - after cleanup returns Ok the call counter is between 1 and
\* 4; it is 4 exactly when the worker finished the item before it received
\* the exit item, and otherwise the pending retry copy, queued behind the exit
\* item, was discarded with the channel; in both cases nothing remains queued.
C2_Amended ==
  C2_Scenario =>
    /\ result = "Ok"
    /\ wpc = "Stopped"
    /\ chan = << >>
    /\ calls["welcome_email"] \in 1..4
    /\ calls["welcome_email"] = 4 => track[1].fate = "succeeded"
    /\ calls["welcome_email"] < 4 =>
         (track[1].fate = "lost" /\ track[1].requeued = calls["welcome_email"])

C2_Witness == C2_Scenario /\ track[1].fate = "lost" /\ calls["welcome_email"] = 1

\* C3 - Lifecycle: for any registry, the empty one included, run followed by
\* cleanup with no item submitted before it returns Ok, and the worker thread
\* is Stopped when cleanup returns.
C3_Lifecycle ==
  (mainpc = "done" /\ \A i \in Ids : track[i].at # "running")
    => (result = "Ok" /\ wpc = "Stopped")

C3_Witness == mainpc = "done" /\ nsent = 0 /\ handlers = << >> /\ result = "Ok"

\* C4 - Exit liveness: once cleanup has sent the exit item, the worker
\* eventually is Stopped and cleanup eventually returns, whatever was queued
\* before the exit item and whatever is submitted meanwhile, unless a handler
\* invocation does not return normally (the worker panics).
C4_ExitLiveness ==
  (mainpc = "joining") ~> ((mainpc = "done" /\ wpc = "Stopped") \/ wpc = "Panicked")

C4_Witness ==
  /\ mainpc = "done"
  /\ wpc = "Stopped"
  /\ \E i \in Ids : track[i].fate = "lost" /\ track[i].requeued > 0

\* C5 - Hook after shutdown: once cleanup has returned the Receiver is gone,
\* and every send on a clone of the hook fails and enqueues nothing.
C5_HookAfterShutdown ==
  [][mainpc = "done" =>
       /\ ~rxAlive
       /\ nsent' # nsent =>
            /\ lastSend' = "SendError"
            /\ chan' = chan
            /\ track'[nsent'].fate = "rejected"]_vars

C5_Witness ==
  mainpc = "done" /\ \E i \in Ids : track[i].at = "done" /\ track[i].fate = "rejected"

\* C6 as stated: whenever the worker thread panicked, cleanup returns
\* JoinError, whether the panic came before or after the exit item was sent.
C6_Original ==
  (mainpc = "done" /\ wpc = "Panicked") => result = "JoinError"

\* C6 (amended) - cleanup returns JoinError whenever the worker panicked and
\* the exit item had been sent successfully; when the worker panicked before
\* cleanup sent the exit item the send fails and cleanup returns SendError.
C6_Amended ==
  [][(mainpc # "done" /\ mainpc' = "done" /\ wpc = "Panicked") =>
       result' = (IF mainpc = "joining" THEN "JoinError" ELSE "SendError")]_vars

C6_Witness == mainpc = "done" /\ wpc = "Panicked" /\ result = "JoinError"

\* C7 - cleanup reports SendError on a closed channel: when the Receiver is
\* already gone as cleanup sends the exit item, cleanup returns SendError
\* and enqueues nothing.
C7_SendErrorOnClosed ==
  [][(mainpc = "running" /\ mainpc' \in {"joining", "done"} /\ ~rxAlive) =>
       (mainpc' = "done" /\ result' = "SendError" /\ chan' = chan)]_vars

C7_Witness == mainpc = "done" /\ result = "SendError" /\ wpc = "Stopped"

\* C8 - Success short-circuit: an item whose handler returns Ok on its first
\* invocation is invoked exactly once and no copy of it is re-enqueued.
C8_SuccessShortCircuit ==
  \A i \in Ids :
    track[i].first = "Ok" =>
      /\ track[i].calls = 1
      /\ track[i].requeued = 0
      /\ track[i].fate = "succeeded"
      /\ ~Live(i)

C8_Witness ==
  \E i \in Ids : track[i].first = "Ok" /\ wpc = "Recv" /\ chan = << >> /\ nsent > i

\* C9 - Unknown-name tolerance: dispatching an item whose name is neither
\* "exit" nor registered invokes no handler, enqueues nothing, leaves the
\* channel as it is and the worker Running at its receive.
C9_UnknownNameTolerance ==
  [][(wpc = "Dispatch" /\ wpc' # "Dispatch"
        /\ msg.name # "exit" /\ msg.name \notin DOMAIN handlers) =>
       /\ wpc' = "Recv"
       /\ rxAlive'
       /\ chan' = chan
       /\ calls' = calls
       /\ track'[msg.id].calls = 0
       /\ track'[msg.id].requeued = 0
       /\ track'[msg.id].fate = "nohandler"]_vars

C9_Witness ==
  \E i, j \in Ids :
    /\ i < j
    /\ track[i].fate = "nohandler"
    /\ track[j].fate = "succeeded"

\* C10 - Duplicate rejection: register_handler with a name already in the
\* registry returns DuplicateHandler(name) and leaves the registry unchanged,
\* and the closure the worker calls for a name is the one registered first.
C10_DuplicateRejected ==
  [][/\ (nregs' = nregs + 1 /\ lastReg'.name \in DOMAIN handlers) =>
          /\ lastReg'.result = <<"DuplicateHandler", lastReg'.name>>
          /\ handlers' = handlers
     /\ calls' # calls => invoked' = firstReg[msg.name]]_vars

C10_Witness ==
  /\ lastReg.result = <<"DuplicateHandler", "welcome_email">>
  /\ lastReg.handler # handlers["welcome_email"]

\* C11 - Reserved-name rejection: register_handler with name "exit" returns
\* ExitHandler for every handler and every registry state and leaves the
\* registry unchanged; no registry ever has the key "exit".
C11_ReservedNameRejected ==
  [][/\ (nregs' = nregs + 1 /\ lastReg'.name = "exit") =>
          /\ lastReg'.result = <<"ExitHandler">>
          /\ handlers' = handlers
     /\ "exit" \notin DOMAIN handlers']_vars

C11_Witness ==
  /\ lastReg.name = "exit"
  /\ lastReg.result = <<"ExitHandler">>
  /\ handlers # << >>

\* C12 - Per-producer FIFO under concurrent producers: the channel only
\* changes by an append at its tail, by the worker taking its head, or by
\* being discarded with the Receiver, and of two items sent by the same
\* producer the later one is never received before the earlier one.
C12_PerProducerFifo ==
  [][/\ \/ chan' = chan
        \/ Len(chan') = Len(chan) + 1 /\ SubSeq(chan', 1, Len(chan)) = chan
        \/ wpc = "Recv" /\ chan # << >> /\ msg' = Head(chan) /\ chan' = Tail(chan)
        \/ ~rxAlive' /\ chan' = << >>
     /\ \A i, j \in Ids :
          (i < j /\ track'[i].producer = track'[j].producer /\ track'[j].seen)
            => track'[i].seen]_vars

C12_Witness ==
  \E i, j \in Ids :
    /\ i < j
    /\ track[i].producer = track[j].producer
    /\ track[i].seen /\ track[j].seen
    /\ track[i].requeued > 0
    /\ track[j].calls > 0

\* C13 - Requeue-to-tail: after a failed invocation with retries > 0 the
\* worker appends the retry copy behind everything the channel holds at that
\* moment and goes back to its receive; it calls a handler only for a message
\* it has just received, never again in place.
C13_RequeueToTail ==
  [][/\ (wpc = "Failed" /\ wpc' # "Failed" /\ msg.retries > 0) =>
          /\ wpc' = "Recv"
          /\ calls' = calls
          /\ Len(chan') = Len(chan) + 1
          /\ SubSeq(chan', 1, Len(chan)) = chan
          /\ chan'[Len(chan')].id = msg.id
     /\ calls' # calls => (wpc = "Dispatch" /\ wpc' # "Dispatch")]_vars

C13_Witness ==
  /\ Len(chan) >= 2
  /\ chan[Len(chan)].retries < InitialRetries
  /\ chan[1].id # chan[Len(chan)].id
  /\ chan[1].name # "exit"

\* C14 - Exit stops immediately: dispatching an item named "exit", whoever
\* sent it and whatever its retry counter, takes the worker to Stopped
\* without a handler call; what was queued behind it is discarded and never
\* received, and Stopped is terminal.
C14_ExitStopsImmediately ==
  [][/\ (wpc = "Dispatch" /\ wpc' # "Dispatch" /\ msg.name = "exit") =>
          /\ wpc' = "Stopped"
          /\ calls' = calls
          /\ ~rxAlive'
          /\ chan' = << >>
          /\ \A i \in IdsIn(chan) : track'[i].fate = "lost"
     /\ wpc = "Stopped" =>
          /\ wpc' = "Stopped"
          /\ calls' = calls
          /\ chan' = << >>
          /\ \A i \in Ids : /\ track'[i].seen = track[i].seen
                            /\ track'[i].calls = track[i].calls]_vars

C14_Witness ==
  /\ wpc = "Stopped"
  /\ msg.name = "exit"
  /\ msg.retries = InitialRetries
  /\ \E i \in Ids : track[i].fate = "lost" /\ ~track[i].seen /\ track[i].name # "exit"

\* C16 - Retry copy shape: the item the worker enqueues after a failed
\* invocation has the name, the payload and the origin of the failed item and
\* a retry counter one less; the worker enqueues exactly that one item then,
\* and nothing on any other of its steps.
C16_RetryCopyShape ==
  [][wpc' # wpc =>
       IF wpc = "Failed" /\ msg.retries > 0
       THEN chan' = Append(chan, [name |-> msg.name, message |-> msg.message,
                                  retries |-> msg.retries - 1, id |-> msg.id])
       ELSE Len(chan') <= Len(chan)]_vars

C16_Witness ==
  \E k \in 1..Len(chan) :
    /\ chan[k].message = "Some"
    /\ chan[k].retries = InitialRetries - 2
    /\ chan[k].name = "welcome_email"

\* C17 - Retry counter range: every item in the channel or in the worker's
\* hands has a retry counter between 0 and 10, and a failure at 0 enqueues
\* nothing.
RetryRange ==
  /\ \A k \in 1..Len(chan) : chan[k].retries \in 0..10
  /\ msg.retries \in 0..10

C17_RetryCounterRange ==
  /\ RetryRange
  /\ [][/\ RetryRange'
        /\ (wpc = "Failed" /\ wpc' # "Failed" /\ msg.retries = 0) =>
             (chan' = chan /\ wpc' = "Recv")]_vars

C17_Witness ==
  /\ chan # << >>
  /\ \E i \in Ids : track[i].fate = "exhausted" /\ msg.id = i /\ msg.retries = 0

\* C18 - Submission succeeds while the worker runs: a send on a clone of the
\* hook returns Ok and appends the item whenever the Receiver has not been
\* dropped, whatever the channel already holds; it fails only once the
\* Receiver is gone, which is only after the worker thread has ended.
C18_SubmitWhileRunning ==
  [][nsent' # nsent =>
       /\ (lastSend' = "Ok") = rxAlive
       /\ rxAlive => (Len(chan') = Len(chan) + 1 /\ chan'[Len(chan')].id = nsent')
       /\ Running => lastSend' = "Ok"
       /\ lastSend' = "SendError" => (wpc \in {"Stopped", "Panicked"} /\ chan' = chan)]_vars

C18_Witness ==
  /\ Running
  /\ lastSend = "Ok"
  /\ Len(chan) = 2
  /\ chan[2].id = nsent

\* C19 - Quiescence: the worker always comes to rest (blocked at its receive
\* on an empty channel unless an exit item or a panic ended it), so there is
\* no endless retry loop, and no item causes more than 11 handler calls.
C19_Quiescence ==
  /\ [](\A i \in Ids : track[i].calls <= 11)
  /\ <>[](\/ mainpc = "config"
          \/ wpc \in {"Stopped", "Panicked"}
          \/ wpc = "Recv" /\ chan = << >>)

C19_Witness ==
  /\ mainpc = "running"
  /\ wpc = "Recv"
  /\ chan = << >>
  /\ nsent = MaxSends
  /\ \A i \in Ids : track[i].calls >= 4

\* C20 - The worker stops only via exit: it leaves Running only by
\* dispatching an item named "exit" or by a handler panic; with the Config and
\* every external hook dropped and the channel empty it stays blocked in its
\* receive, because its own thread_hook keeps the channel connected.
C20_StopsOnlyViaExit ==
  [][/\ (Running /\ ~Running') =>
          /\ wpc = "Dispatch"
          /\ \/ msg.name = "exit" /\ wpc' = "Stopped"
             \/ calls' # calls /\ wpc' = "Panicked"
     /\ (mainpc = "dropped" /\ wpc = "Recv" /\ chan = << >>) =>
          (wpc' = "Recv" /\ rxAlive')]_vars

C20_Witness ==
  /\ mainpc = "dropped"
  /\ wpc = "Recv"
  /\ chan = << >>
  /\ rxAlive
  /\ \E i \in Ids : track[i].fate = "succeeded"

\* the number of copies of item i in the channel or in the worker's hands
Copies(i) ==
  Cardinality({k \in 1..Len(chan) : chan[k].id = i})
    + (IF wpc \in {"Dispatch", "Failed"} /\ msg.id = i THEN 1 ELSE 0)

\* every submitted item has at most one copy
AtMostOneCopy == \A i \in Ids : Copies(i) <= 1

\* while the worker is Running every submitted item is queued, being
\* handled, succeeded, dropped for its unknown name or dropped exhausted
OneStateWhileRunning ==
  Running =>
    \A i \in 1..nsent :
      \/ /\ track[i].fate = "live"
         /\ i \in IdsIn(chan)
         /\ Copies(i) = 1
      \/ /\ track[i].fate = "handling"
         /\ wpc \in {"Dispatch", "Failed"}
         /\ msg.id = i
         /\ Copies(i) = 1
      \/ /\ track[i].fate \in {"succeeded", "nohandler", "exhausted"}
         /\ Copies(i) = 0

\* C21 as stated: at most one live copy per item, exactly one state per item
\* while the worker is Running, and an item is lost unprocessed only by being
\* behind an exit item when the worker stops.
C21_Original ==
  /\ AtMostOneCopy
  /\ OneStateWhileRunning
  /\ \A i \in Ids :
       track[i].fate = "lost" => (wpc = "Stopped" /\ msg.name = "exit")

\* C21 (amended) - at most one live copy per item, exactly one state per
\* item while the worker is Running, and an item is lost unprocessed only by
\* being queued when the worker thread ends: behind an exit item when the
\* worker stops, or behind an item whose handler panics.
C21_Amended ==
  /\ AtMostOneCopy
  /\ OneStateWhileRunning
  /\ \A i \in Ids :
       track[i].fate = "lost" =>
         /\ ~rxAlive
         /\ Copies(i) = 0
         /\ \/ wpc = "Stopped" /\ msg.name = "exit"
            \/ /\ wpc = "Panicked"
               /\ msg.id \in Ids
               /\ track[msg.id].fate = "panicked"
               /\ handlers[msg.name] = "panic"

C21_Witness ==
  \E i, j \in Ids :
    /\ track[i].fate = "panicked"
    /\ track[j].fate = "lost"
    /\ ~track[j].seen

====
